---- MODULE Spec2Model ----
(***************************************************************************)
(* Particle swarm optimisation engine (src/src/pso.rs): the driver         *)
(* PSOAlgorithm::new / PSOAlgorithm::execute, the swarm it owns and the    *)
(* probe fan-out it notifies.                                              *)
(*                                                                         *)
(* Floating point values are modelled by integers; the random factors of   *)
(* the velocity update, which the code draws from [0,1), are drawn from    *)
(* {0, 1/2}, and the inertia weight is the default 1/2.  Random draws come *)
(* from a small linear congruential generator whose seed is an input.      *)
(***************************************************************************)
EXTENDS Integers, Sequences, FiniteSets

VARIABLES
    pc,         \* position of the engine: before new, between the statements of execute, after it
    config,     \* PSOAlgorithm.config
    swarm,      \* PSOAlgorithm.swarm
    iteration,  \* loop variable of execute
    rng,        \* state of the process-wide random generator
    runs,       \* number of calls of execute on this engine
    trace,      \* calls made by the current run of execute, in order
    delivered,  \* calls received by the inner probes in the current run, in order
    errors,     \* delivery errors collected by the fan-out in the current run
    history,    \* global_best_fitness seen at on_begin and after each iteration of the current run
    total       \* calls made over the whole life of the engine

vars == <<pc, config, swarm, iteration, rng, runs, trace, delivered, errors, history, total>>

----------------------------------------------------------------------------
(* Bounds of the model *)

MaxParticles == 2
MaxDim == 2
MaxIter == 3
MaxInterval == 2
MaxProbes == 2
MaxSeed == 3
MaxRuns == 2

\* values the search bounds are drawn from
BoundValues == {-1, 0, 1}

(* Reference coefficients: PSOAlgorithmCfg::default *)
inertia_divisor == 2
cognitive_coefficient == 1
social_coefficient == 3

----------------------------------------------------------------------------
(* The random source *)

Rand(s) == (5 * s + 3) % 16

RECURSIVE RandN(_, _)
RandN(s, n) == IF n = 0 THEN s ELSE RandN(Rand(s), n - 1)

\* a value of 0..k-1 read off generator state s
Draw(s, k) == (s \div 2) % k

----------------------------------------------------------------------------
(* The objective function *)

RECURSIVE RosenbrockFrom(_, _)
RosenbrockFrom(x, i) ==
    IF i >= Len(x) THEN 0
    ELSE 100 * (x[i+1] - x[i] * x[i]) * (x[i+1] - x[i] * x[i])
         + (1 - x[i]) * (1 - x[i])
         + RosenbrockFrom(x, i + 1)

rosenbrock(x) == RosenbrockFrom(x, 1)

----------------------------------------------------------------------------
(* Swarm and particles *)

NoSwarm == [particles |-> <<>>, global_best_position |-> <<>>, global_best_fitness |-> 0]

\* particle p of a fresh swarm; each coordinate takes two draws
NewParticle(p, dimensions, lower_bound, upper_bound, s) ==
    LET scale == upper_bound - lower_bound
        at(d) == 2 * ((p - 1) * dimensions + (d - 1))
        position == [d \in 1..dimensions |->
                        lower_bound + Draw(RandN(s, at(d) + 1), scale + 1)]
        velocity == [d \in 1..dimensions |->
                        Draw(RandN(s, at(d) + 2), 2 * scale + 1) - scale]
    IN  [position |-> position, velocity |-> velocity,
         best_position |-> position, best_fitness |-> rosenbrock(position)]

\* the rescan: the first particle whose personal best improves on the best so far wins
RECURSIVE ScanBest(_, _, _, _)
ScanBest(particles, k, pos, fit) ==
    IF k > Len(particles) THEN [position |-> pos, fitness |-> fit]
    ELSE IF particles[k].best_fitness < fit
         THEN ScanBest(particles, k + 1, particles[k].best_position, particles[k].best_fitness)
         ELSE ScanBest(particles, k + 1, pos, fit)

ConfigurationError(particle_count, dimensions, lower_bound, upper_bound) ==
    \/ particle_count = 0
    \/ dimensions = 0
    \/ lower_bound >= upper_bound

Swarm_generate(particle_count, dimensions, lower_bound, upper_bound, s) ==
    LET particles == [p \in 1..particle_count |->
                        NewParticle(p, dimensions, lower_bound, upper_bound, s)]
        best == ScanBest(particles, 2, particles[1].best_position, particles[1].best_fitness)
    IN  [particles |-> particles,
         global_best_position |-> best.position,
         global_best_fitness |-> best.fitness]

\* v' = inertia * v + cognitive * r1 * (best - x) + social * r2 * (global_best - x)
Particle_update_velocity(p, global_best_position, r1, r2) ==
    [p EXCEPT !.velocity =
        [d \in 1..Len(p.velocity) |->
            (p.velocity[d]
             + cognitive_coefficient * r1 * (p.best_position[d] - p.position[d])
             + social_coefficient * r2 * (global_best_position[d] - p.position[d]))
            \div inertia_divisor]]

Swarm_update_velocities(sw, s) ==
    [sw EXCEPT !.particles =
        [k \in 1..Len(sw.particles) |->
            Particle_update_velocity(sw.particles[k], sw.global_best_position,
                                     Draw(RandN(s, 2 * k - 1), 2),
                                     Draw(RandN(s, 2 * k), 2))]]

Particle_update_position(p) ==
    LET position == [d \in 1..Len(p.position) |-> p.position[d] + p.velocity[d]]
        fitness == rosenbrock(position)
    IN  IF fitness < p.best_fitness
        THEN [p EXCEPT !.position = position,
                       !.best_position = position,
                       !.best_fitness = fitness]
        ELSE [p EXCEPT !.position = position]

\* a move that refreshes the global best as soon as a particle improves on it
Swarm_update_positions_refreshing(sw) ==
    LET moved == [k \in 1..Len(sw.particles) |-> Particle_update_position(sw.particles[k])]
        best == ScanBest(moved, 1, sw.global_best_position, sw.global_best_fitness)
    IN  [particles |-> moved,
         global_best_position |-> best.position,
         global_best_fitness |-> best.fitness]

Swarm_update_positions(sw) ==
    [sw EXCEPT !.particles =
        [k \in 1..Len(sw.particles) |-> Particle_update_position(sw.particles[k])]]

\* a rescan that takes the best of the current positions, whatever the best known so far
Swarm_update_best_position_of_current(sw) ==
    LET current == [k \in 1..Len(sw.particles) |->
                       [best_position |-> sw.particles[k].position,
                        best_fitness |-> rosenbrock(sw.particles[k].position)]]
        best == ScanBest(current, 2, current[1].best_position, current[1].best_fitness)
    IN  [sw EXCEPT !.global_best_position = best.position,
                   !.global_best_fitness = best.fitness]

Swarm_update_best_position(sw) ==
    LET best == ScanBest(sw.particles, 1, sw.global_best_position, sw.global_best_fitness)
    IN  [sw EXCEPT !.global_best_position = best.position,
                   !.global_best_fitness = best.fitness]

----------------------------------------------------------------------------
(* The probe fan-out *)

Call(op, arg) == [op |-> op, arg |-> arg]

\* a fan-out that walks its list from the back
MultiProbe_notify_reversed(nprobes, failing, op, arg) ==
    [delivered |-> [k \in 1..nprobes |-> [probe |-> nprobes + 1 - k, op |-> op, arg |-> arg]],
     errors |-> IF failing \in 1..nprobes
                THEN <<[probe |-> failing, op |-> op, arg |-> arg]>>
                ELSE <<>>]

\* every held probe is invoked in list order; a failing one is noted and passed over
MultiProbe_notify(nprobes, failing, op, arg) ==
    [delivered |-> [k \in 1..nprobes |-> [probe |-> k, op |-> op, arg |-> arg]],
     errors |-> IF failing \in 1..nprobes
                THEN <<[probe |-> failing, op |-> op, arg |-> arg]>>
                ELSE <<>>]

Notify(op, arg) ==
    LET sent == MultiProbe_notify(config.nprobes, config.failing, op, arg)
    IN  /\ delivered' = delivered \o sent.delivered
        /\ errors' = errors \o sent.errors
        /\ trace' = Append(trace, Call(op, arg))

Bump(field) == total' = [total EXCEPT ![field] = @ + 1]

----------------------------------------------------------------------------
(* The engine *)

NoConfig ==
    [dimensions |-> 0, lower_bound |-> 0, upper_bound |-> 0, particle_count |-> 0,
     iterations |-> 0, log_interval |-> 0, nprobes |-> 0, failing |-> 0]

NoTotal == [on_begin |-> 0, on_new_generation |-> 0, on_end |-> 0, passes |-> 0]

Init ==
    /\ pc = "Unbuilt"
    /\ config = NoConfig
    /\ swarm = NoSwarm
    /\ iteration = 0
    /\ rng = 0
    /\ runs = 0
    /\ trace = <<>>
    /\ delivered = <<>>
    /\ errors = <<>>
    /\ history = <<>>
    /\ total = NoTotal

\* a loop over 0..=iterations
LoopHeadInclusive(i) == IF i <= config.iterations THEN "update_velocities" ELSE "on_end"

\* head of `for iteration in 0..iterations`
LoopHead(i) == IF i < config.iterations THEN "update_velocities" ELSE "on_end"

\* a constructor that builds the engine whatever generate said
PSOAlgorithm_new_unchecked(particle_count, dimensions, lower_bound, upper_bound, seed) ==
    IF ConfigurationError(particle_count, dimensions, lower_bound, upper_bound)
    THEN [pc |-> "Created", swarm |-> NoSwarm, rng |-> seed]
    ELSE [pc |-> "Created",
          swarm |-> Swarm_generate(particle_count, dimensions, lower_bound, upper_bound, seed),
          rng |-> RandN(seed, 2 * particle_count * dimensions)]

\* a constructor that hands generate its two counts in the wrong order
PSOAlgorithm_new_swapped(particle_count, dimensions, lower_bound, upper_bound, seed) ==
    IF ConfigurationError(dimensions, particle_count, lower_bound, upper_bound)
    THEN [pc |-> "Rejected", swarm |-> NoSwarm, rng |-> seed]
    ELSE [pc |-> "Created",
          swarm |-> Swarm_generate(dimensions, particle_count, lower_bound, upper_bound, seed),
          rng |-> RandN(seed, 2 * particle_count * dimensions)]

\* the engine exists only if Swarm::generate returned a swarm
PSOAlgorithm_new(particle_count, dimensions, lower_bound, upper_bound, seed) ==
    IF ConfigurationError(particle_count, dimensions, lower_bound, upper_bound)
    THEN [pc |-> "Rejected", swarm |-> NoSwarm, rng |-> seed]
    ELSE [pc |-> "Created",
          swarm |-> Swarm_generate(particle_count, dimensions, lower_bound, upper_bound, seed),
          rng |-> RandN(seed, 2 * particle_count * dimensions)]

New ==
    /\ pc = "Unbuilt"
    /\ \E dimensions \in 0..MaxDim, particle_count \in 0..MaxParticles,
          lower_bound \in BoundValues, upper_bound \in BoundValues,
          iterations \in 0..MaxIter, log_interval \in 0..MaxInterval,
          nprobes \in 0..MaxProbes, seed \in 0..MaxSeed :
        \E failing \in 0..nprobes :
          /\ config' = [dimensions |-> dimensions, lower_bound |-> lower_bound,
                        upper_bound |-> upper_bound, particle_count |-> particle_count,
                        iterations |-> iterations, log_interval |-> log_interval,
                        nprobes |-> nprobes, failing |-> failing]
          /\ LET built == PSOAlgorithm_new(particle_count, dimensions,
                                           lower_bound, upper_bound, seed)
             IN  /\ pc' = built.pc
                 /\ swarm' = built.swarm
                 /\ rng' = built.rng
    /\ UNCHANGED <<iteration, runs, trace, delivered, errors, history, total>>

\* entry of execute: nothing in the engine records that it ran before
Execute ==
    /\ pc \in {"Created", "Completed"}
    /\ runs < MaxRuns
    /\ runs' = runs + 1
    /\ pc' = "on_begin"
    /\ trace' = <<>>
    /\ delivered' = <<>>
    /\ errors' = <<>>
    /\ history' = <<>>
    /\ UNCHANGED <<config, swarm, iteration, rng, total>>

\* a loop that goes on from the iteration the last run stopped at
OnBeginKeepingIteration ==
    /\ pc = "on_begin"
    /\ Notify("on_begin", 0)
    /\ Bump("on_begin")
    /\ history' = Append(history, swarm.global_best_fitness)
    /\ pc' = LoopHead(iteration)
    /\ UNCHANGED <<config, swarm, iteration, rng, runs>>

\* an on_begin whose probe is handed the swarm mutably and stops every particle
OnBeginMutatingSwarm ==
    /\ pc = "on_begin"
    /\ Notify("on_begin", 0)
    /\ Bump("on_begin")
    /\ history' = Append(history, swarm.global_best_fitness)
    /\ iteration' = 0
    /\ pc' = LoopHead(0)
    /\ swarm' = [swarm EXCEPT !.particles =
                    [k \in 1..Len(swarm.particles) |->
                        [swarm.particles[k] EXCEPT !.velocity =
                            [d \in 1..Len(swarm.particles[k].velocity) |-> 0]]]]
    /\ UNCHANGED <<config, rng, runs>>

OnBegin ==
    /\ pc = "on_begin"
    /\ Notify("on_begin", 0)
    /\ Bump("on_begin")
    /\ history' = Append(history, swarm.global_best_fitness)
    /\ iteration' = 0
    /\ pc' = LoopHead(0)
    /\ UNCHANGED <<config, swarm, rng, runs>>

UpdateVelocities ==
    /\ pc = "update_velocities"
    /\ swarm' = Swarm_update_velocities(swarm, rng)
    /\ rng' = RandN(rng, 2 * Len(swarm.particles))
    /\ trace' = Append(trace, Call("update_velocities", 0))
    /\ pc' = "update_positions"
    /\ UNCHANGED <<config, iteration, runs, delivered, errors, history, total>>

\* an iteration without its update_best_position
UpdatePositionsWithoutRescan ==
    /\ pc = "update_positions"
    /\ swarm' = Swarm_update_positions(swarm)
    /\ trace' = Append(trace, Call("update_positions", 0))
    /\ history' = Append(history, swarm.global_best_fitness)
    /\ Bump("passes")
    /\ pc' = "log_check"
    /\ UNCHANGED <<config, iteration, rng, runs, delivered, errors>>

UpdatePositions ==
    /\ pc = "update_positions"
    /\ swarm' = Swarm_update_positions(swarm)
    /\ trace' = Append(trace, Call("update_positions", 0))
    /\ pc' = "update_best_position"
    /\ UNCHANGED <<config, iteration, rng, runs, delivered, errors, history, total>>

UpdateBestPosition ==
    /\ pc = "update_best_position"
    /\ swarm' = Swarm_update_best_position(swarm)
    /\ trace' = Append(trace, Call("update_best_position", 0))
    /\ history' = Append(history, swarm'.global_best_fitness)
    /\ Bump("passes")
    /\ pc' = "log_check"
    /\ UNCHANGED <<config, iteration, rng, runs, delivered, errors>>

\* the test of the notification: (iteration + 1) % log_interval == 0
NotificationDueOffByOne(i, log_interval) == i % log_interval = 0

NotificationDue(i, log_interval) == (i + 1) % log_interval = 0

\* a zero interval read as "never notify"
RemainderByZeroSkipped ==
    /\ pc = "log_check"
    /\ config.log_interval = 0
    /\ iteration' = iteration + 1
    /\ pc' = LoopHead(iteration + 1)
    /\ UNCHANGED <<config, swarm, rng, runs, trace, delivered, errors, history, total>>

\* (iteration + 1) % log_interval with log_interval == 0
RemainderByZero ==
    /\ pc = "log_check"
    /\ config.log_interval = 0
    /\ pc' = "Panicked"
    /\ UNCHANGED <<config, swarm, iteration, rng, runs, trace, delivered, errors, history, total>>

\* a notification whose delivery error ends the run
OnNewGenerationAborting ==
    /\ pc = "log_check"
    /\ config.log_interval # 0
    /\ NotificationDue(iteration, config.log_interval)
    /\ Notify("on_new_generation", iteration + 1)
    /\ Bump("on_new_generation")
    /\ iteration' = iteration + 1
    /\ pc' = IF Len(errors') > Len(errors) THEN "Panicked" ELSE LoopHead(iteration + 1)
    /\ UNCHANGED <<config, swarm, rng, runs, history>>

OnNewGeneration ==
    /\ pc = "log_check"
    /\ config.log_interval # 0
    /\ NotificationDue(iteration, config.log_interval)
    /\ Notify("on_new_generation", iteration + 1)
    /\ Bump("on_new_generation")
    /\ iteration' = iteration + 1
    /\ pc' = LoopHead(iteration + 1)
    /\ UNCHANGED <<config, swarm, rng, runs, history>>

NoNotification ==
    /\ pc = "log_check"
    /\ config.log_interval # 0
    /\ ~NotificationDue(iteration, config.log_interval)
    /\ iteration' = iteration + 1
    /\ pc' = LoopHead(iteration + 1)
    /\ UNCHANGED <<config, swarm, rng, runs, trace, delivered, errors, history, total>>

\* execute returning without the closing notification
OnEndNotDelivered ==
    /\ pc = "on_end"
    /\ pc' = "Completed"
    /\ UNCHANGED <<config, swarm, iteration, rng, runs, trace, delivered, errors, history, total>>

OnEnd ==
    /\ pc = "on_end"
    /\ Notify("on_end", 0)
    /\ Bump("on_end")
    /\ pc' = "Completed"
    /\ UNCHANGED <<config, swarm, iteration, rng, runs, history>>


----------------------------------------------------------------------------
(* Firefly algorithm (src/src/ff.rs): FireflyAlgorithm::execute.           *)
(*                                                                         *)
(* Positions are integers.  A brightness 1 / f is kept as the fraction     *)
(* num / den, with 1 / 0 for the infinite one.  The attraction             *)
(* beta0 * e^(-gamma * d^2) is taken to first order, in hundredths, and    *)
(* the random factor rng.gen_range(0.01..0.99) - 0.5 is drawn from         *)
(* {-1/2, 0, 1/2}; alfa is kept in hundredths.  A new position is rounded  *)
(* to the nearest integer.                                                 *)

VARIABLES
    ffpc,         \* position of FireflyAlgorithm::execute
    ffconfig,     \* FireflyAlgorithm.config and brightness_function
    population,   \* local population, fireflies numbered from 0
    brightness,   \* local brightness
    alfa,         \* local alfa, in hundredths
    currentbest,  \* local currentbest: <<>> while it is f64::MAX, <<v>> after
    generation,   \* loop variable
    index,        \* loop variable
    innerindex,   \* loop variable
    maxpos,       \* local maxpos of the last ranking
    ffrng,        \* state of the random generator
    probe_calls,  \* probe calls made so far, in order
    evaluations   \* calls of brightness_function made so far

ffvars == <<ffpc, ffconfig, population, brightness, alfa, currentbest, generation,
            index, innerindex, maxpos, ffrng, probe_calls, evaluations>>

MaxPopulation == 2
MaxFfDim == 1
MaxGenerations == 26
MaxFfSeed == 7

(* FireflyAlgorithmCfg::default, gamma and delta in hundredths *)
alfa0 == 1
beta0 == 1
gamma_hundredths == 1
delta_hundredths == 97

\* generation % 25 == 0
ReportPeriod == 25

\* the objective functions a caller may install
BrightnessFunctions == {"rastrigin", "rastrigin_below_zero"}

\* cos(2 * PI * param) at an integer param
CosTwoPi(param) == 1

RECURSIVE RastriginFrom(_, _)
RastriginFrom(params, i) ==
    IF i > Len(params) THEN 0
    ELSE params[i] * params[i] - 10 * CosTwoPi(params[i]) + RastriginFrom(params, i + 1)

rastrigin(params) == RastriginFrom(params, 1) + 10 * Len(params)

\* (self.brightness_function)(point)
brightness_function(name, point) ==
    IF name = "rastrigin" THEN rastrigin(point) ELSE rastrigin(point) - 2

\* 1 as f64 / value
Inverse(value) ==
    IF value = 0 THEN [num |-> 1, den |-> 0]
    ELSE IF value > 0 THEN [num |-> 1, den |-> value]
    ELSE [num |-> -1, den |-> -value]

INFINITY == [num |-> 1, den |-> 0]

Zero == [num |-> 0, den |-> 1]

\* a < b on brightness values
Less(a, b) == a.num * b.den < b.num * a.den

RECURSIVE SquaredDistanceFrom(_, _, _)
SquaredDistanceFrom(a, b, dimension) ==
    IF dimension > Len(a) THEN 0
    ELSE (a[dimension] - b[dimension]) * (a[dimension] - b[dimension])
         + SquaredDistanceFrom(a, b, dimension + 1)

\* f64::powi(distance(a, b), 2)
SquaredDistance(a, b) == SquaredDistanceFrom(a, b, 1)

\* beta0 * e^(-gamma * d^2), in hundredths
Const1(a, b) ==
    LET c == beta0 * (100 - gamma_hundredths * SquaredDistance(a, b))
    IN  IF c < 0 THEN 0 ELSE c

\* the firefly at `me` moved towards the one at `other`, one draw per dimension
MovedTowards(me, other, alfa_now, scale, s) ==
    LET const1 == Const1(me, other)
    IN  [dimension \in 1..Len(me) |->
            me[dimension]
            + (const1 * (other[dimension] - me[dimension]) + 50) \div 100
            + (alfa0 * alfa_now * (Draw(RandN(s, dimension), 3) - 1) * scale + 100) \div 200]

\* the ranking of lines 157-168: maxpos after the scan from firefly i on
RECURSIVE RankFrom(_, _, _, _)
RankFrom(bright, i, maxbright, pos) ==
    IF i >= Len(bright) THEN pos
    ELSE IF bright[i + 1] = INFINITY THEN i
    ELSE IF Less(maxbright, bright[i + 1])
         THEN RankFrom(bright, i + 1, bright[i + 1], i)
         ELSE RankFrom(bright, i + 1, maxbright, pos)

Rank(bright) == RankFrom(bright, 0, Zero, 0)

NoFfConfig ==
    [dimensions |-> 0, lower_bound |-> 0, upper_bound |-> 0, max_generations |-> 0,
     population_size |-> 0, brightness_function |-> "rastrigin"]

FfIdle ==
    /\ ffpc = "Idle"
    /\ ffconfig = NoFfConfig
    /\ population = <<>>
    /\ brightness = <<>>
    /\ alfa = 0
    /\ currentbest = <<>>
    /\ generation = 0
    /\ index = 0
    /\ innerindex = 0
    /\ maxpos = 0
    /\ ffrng = 0
    /\ probe_calls = <<>>
    /\ evaluations = 0

\* FireflyAlgorithm::new, any configuration, and the generator as the thread finds it
FfInit ==
    /\ ffpc = "on_start"
    /\ ffconfig \in [dimensions : 0..MaxFfDim, lower_bound : BoundValues,
                     upper_bound : BoundValues, max_generations : 0..MaxGenerations,
                     population_size : 0..MaxPopulation,
                     brightness_function : BrightnessFunctions]
    /\ population = <<>>
    /\ brightness = <<>>
    /\ alfa = 0
    /\ currentbest = <<>>
    /\ generation = 0
    /\ index = 0
    /\ innerindex = 0
    /\ maxpos = 0
    /\ ffrng \in 0..MaxFfSeed
    /\ probe_calls = <<>>
    /\ evaluations = 0

Objective(point) == brightness_function(ffconfig.brightness_function, point)

\* head of `for generation in 0..max_generations`
GenerationHead(g) == IF g < ffconfig.max_generations THEN "iteration_start" ELSE "on_end"

\* head of the two nested loops over the population
FirstPair == IF ffconfig.population_size = 0 THEN "decay" ELSE "compare"

OnStart ==
    /\ ffpc = "on_start"
    /\ probe_calls' = Append(probe_calls, Call("on_start", 0))
    /\ ffpc' = "generate"
    /\ UNCHANGED <<ffconfig, population, brightness, alfa, currentbest, generation,
                   index, innerindex, maxpos, ffrng, evaluations>>

\* gen_range(lower_bound..upper_bound) on an empty range
GenerateEmptyRange ==
    /\ ffpc = "generate"
    /\ ffconfig.population_size > 0
    /\ ffconfig.dimensions > 0
    /\ ffconfig.lower_bound >= ffconfig.upper_bound
    /\ ffpc' = "Panicked"
    /\ UNCHANGED <<ffconfig, population, brightness, alfa, currentbest, generation,
                   index, innerindex, maxpos, ffrng, probe_calls, evaluations>>

GeneratePopulation ==
    /\ ffpc = "generate"
    /\ ~(/\ ffconfig.population_size > 0
         /\ ffconfig.dimensions > 0
         /\ ffconfig.lower_bound >= ffconfig.upper_bound)
    /\ population' =
          [i \in 1..ffconfig.population_size |->
              [dim \in 1..ffconfig.dimensions |->
                  ffconfig.lower_bound
                  + Draw(RandN(ffrng, (i - 1) * ffconfig.dimensions + dim),
                         ffconfig.upper_bound - ffconfig.lower_bound)]]
    /\ ffrng' = RandN(ffrng, ffconfig.population_size * ffconfig.dimensions)
    /\ ffpc' = "evaluate"
    /\ UNCHANGED <<ffconfig, brightness, alfa, currentbest, generation,
                   index, innerindex, maxpos, probe_calls, evaluations>>

\* lines 131-139
EvaluateBrightness ==
    /\ ffpc = "evaluate"
    /\ brightness' = [i \in 1..Len(population) |-> Inverse(Objective(population[i]))]
    /\ evaluations' = evaluations + Len(population)
    /\ alfa' = alfa0 * 100
    /\ currentbest' = <<>>
    /\ generation' = 0
    /\ ffpc' = GenerationHead(0)
    /\ UNCHANGED <<ffconfig, population, index, innerindex, maxpos, ffrng, probe_calls>>

\* a report in every generation
ReportingEveryGeneration(g) == TRUE

\* generation % 25 == 0
Reporting(g) == g % ReportPeriod = 0

OnIterationStart ==
    /\ ffpc = "iteration_start"
    /\ Reporting(generation)
    /\ probe_calls' = Append(probe_calls, Call("on_iteration_start", generation))
    /\ index' = 0
    /\ innerindex' = 0
    /\ ffpc' = FirstPair
    /\ UNCHANGED <<ffconfig, population, brightness, alfa, currentbest, generation,
                   maxpos, ffrng, evaluations>>

NoIterationStart ==
    /\ ffpc = "iteration_start"
    /\ ~Reporting(generation)
    /\ index' = 0
    /\ innerindex' = 0
    /\ ffpc' = FirstPair
    /\ UNCHANGED <<ffconfig, population, brightness, alfa, currentbest, generation,
                   maxpos, ffrng, probe_calls, evaluations>>

\* the next turn of the two nested loops
Advance ==
    IF innerindex + 1 < ffconfig.population_size
    THEN /\ innerindex' = innerindex + 1
         /\ index' = index
         /\ ffpc' = "compare"
    ELSE /\ innerindex' = 0
         /\ index' = index + 1
         /\ ffpc' = IF index + 1 < ffconfig.population_size THEN "compare" ELSE "decay"

\* brightness[index] < brightness[innerindex]
Attracted(i, j) == Less(brightness[i + 1], brightness[j + 1])

\* lines 147-151 without the re-evaluation
MoveKeepingBrightness ==
    /\ ffpc = "compare"
    /\ Attracted(index, innerindex)
    /\ population' = [population EXCEPT ![index + 1] =
                         MovedTowards(population[index + 1], population[innerindex + 1],
                                      alfa, ffconfig.upper_bound - ffconfig.lower_bound,
                                      ffrng)]
    /\ ffrng' = RandN(ffrng, ffconfig.dimensions)
    /\ Advance
    /\ UNCHANGED <<ffconfig, brightness, alfa, currentbest, generation, maxpos, probe_calls,
                   evaluations>>

\* lines 146-152, the firefly is attracted
Move ==
    /\ ffpc = "compare"
    /\ Attracted(index, innerindex)
    /\ population' = [population EXCEPT ![index + 1] =
                         MovedTowards(population[index + 1], population[innerindex + 1],
                                      alfa, ffconfig.upper_bound - ffconfig.lower_bound,
                                      ffrng)]
    /\ ffrng' = RandN(ffrng, ffconfig.dimensions)
    /\ brightness' = [brightness EXCEPT ![index + 1] =
                         Inverse(Objective(population'[index + 1]))]
    /\ evaluations' = evaluations + 1
    /\ Advance
    /\ UNCHANGED <<ffconfig, alfa, currentbest, generation, maxpos, probe_calls>>

\* line 146, the firefly is not attracted
Stay ==
    /\ ffpc = "compare"
    /\ ~Attracted(index, innerindex)
    /\ Advance
    /\ UNCHANGED <<ffconfig, population, brightness, alfa, currentbest, generation,
                   maxpos, ffrng, probe_calls, evaluations>>

\* line 155, then the test of line 156
Decay ==
    /\ ffpc = "decay"
    /\ alfa' = (alfa * delta_hundredths) \div 100
    /\ IF Reporting(generation)
       THEN /\ ffpc' = "report"
            /\ generation' = generation
       ELSE /\ ffpc' = GenerationHead(generation + 1)
            /\ generation' = generation + 1
    /\ UNCHANGED <<ffconfig, population, brightness, currentbest, index, innerindex,
                   maxpos, ffrng, probe_calls, evaluations>>

\* population[maxpos] with no firefly
ReportEmptyPopulation ==
    /\ ffpc = "report"
    /\ Len(population) = 0
    /\ maxpos' = 0
    /\ ffpc' = "Panicked"
    /\ UNCHANGED <<ffconfig, population, brightness, alfa, currentbest, generation,
                   index, innerindex, ffrng, probe_calls, evaluations>>

\* the comparison of line 169 with <= for <
BelowOrAtCurrentBest(value) ==
    IF currentbest = <<>> THEN TRUE ELSE value <= currentbest[1]

\* line 169: whether a value is below currentbest
BelowCurrentBest(value) ==
    IF currentbest = <<>> THEN TRUE ELSE value < currentbest[1]

\* lines 157-171
ReportNewBest ==
    /\ ffpc = "report"
    /\ Len(population) > 0
    /\ maxpos' = Rank(brightness)
    /\ BelowCurrentBest(Objective(population[maxpos' + 1]))
    /\ probe_calls' = Append(probe_calls, Call("on_new_best", Objective(population[maxpos' + 1])))
    /\ currentbest' = <<Objective(population[maxpos' + 1])>>
    /\ evaluations' = evaluations + 3
    /\ generation' = generation + 1
    /\ ffpc' = GenerationHead(generation + 1)
    /\ UNCHANGED <<ffconfig, population, brightness, alfa, index, innerindex, ffrng>>

\* lines 157-169, 172-174
ReportCurrentBest ==
    /\ ffpc = "report"
    /\ Len(population) > 0
    /\ maxpos' = Rank(brightness)
    /\ ~BelowCurrentBest(Objective(population[maxpos' + 1]))
    /\ probe_calls' = Append(probe_calls, Call("on_current_best", 0))
    /\ evaluations' = evaluations + 1
    /\ generation' = generation + 1
    /\ ffpc' = GenerationHead(generation + 1)
    /\ UNCHANGED <<ffconfig, population, brightness, alfa, currentbest, index, innerindex,
                   ffrng>>

FfOnEnd ==
    /\ ffpc = "on_end"
    /\ probe_calls' = Append(probe_calls, Call("on_end", 0))
    /\ ffpc' = "Done"
    /\ UNCHANGED <<ffconfig, population, brightness, alfa, currentbest, generation,
                   index, innerindex, maxpos, ffrng, evaluations>>

----------------------------------------------------------------------------
(* Ant system record probe (src/src/aco/ants_system_v2/probe/csv_probe.rs): *)
(* CsvProbe.  The entries of a solution matrix are kept in tenths; rows    *)
(* and columns are numbered from 0 in the records.                         *)

VARIABLES
    csv_pc,         \* "Idle" before CsvProbe::new, "Ready" after, "Panicked" after a panic
    csv_iteration,  \* CsvProbe.iteration
    best_sols,      \* CsvProbe.best_sols
    pher,           \* CsvProbe.pher
    best_sol,       \* CsvProbe.best_sol, its matrix
    best_csv,       \* the records in the file best.csv, <<>> while there is none
    writes,         \* the writers opened on best.csv so far
    csv_calls       \* the probe operations called so far, in order

csvvars == <<csv_pc, csv_iteration, best_sols, pher, best_sol, best_csv, writes, csv_calls>>

MaxCsvCalls == 5
MaxCsvIteration == 1

\* `*val < 0.5`, in tenths
Threshold == 5

\* the solutions a caller passes: square matrices
Solutions ==
    { <<<<0>>>>,
      <<<<0, 10>>, <<10, 0>>>>,
      <<<<5, 4>>, <<0, 0>>>> }

\* Solution::default(), whatever matrix it holds
DefaultSolutions == Solutions \cup {<<>>}

BestSolutionRecord(i, j, iter) == [from |-> i, to |-> j, iter |-> iter]

\* the records of row i from column j on (line 63)
RECURSIVE RowRecords(_, _, _, _)
RowRecords(row, i, j, iter) ==
    IF j >= Len(row) THEN <<>>
    ELSE (IF row[j + 1] < Threshold THEN <<>> ELSE <<BestSolutionRecord(i, j, iter)>>)
         \o RowRecords(row, i, j + 1, iter)

\* the records of the rows from i on (line 62)
RECURSIVE MatrixRecords(_, _, _)
MatrixRecords(matrix, i, iter) ==
    IF i >= Len(matrix) THEN <<>>
    ELSE RowRecords(matrix[i + 1], i, 0, iter) \o MatrixRecords(matrix, i + 1, iter)

\* CsvProbe::flush: a new file best.csv, every record of best_sols serialized in order
CsvProbe_flush(file, records) == records

CsvIdle ==
    /\ csv_pc = "Idle"
    /\ csv_iteration = 0
    /\ best_sols = <<>>
    /\ pher = <<>>
    /\ best_sol = <<>>
    /\ best_csv = <<>>
    /\ writes = 0
    /\ csv_calls = <<>>

\* CsvProbe::new
CsvInit ==
    /\ csv_pc = "Ready"
    /\ csv_iteration = 0
    /\ best_sols = <<>>
    /\ pher = <<>>
    /\ best_sol \in DefaultSolutions
    /\ best_csv = <<>>
    /\ writes = 0
    /\ csv_calls = <<>>

\* a caller may make one more call on the probe
Callable == csv_pc = "Ready" /\ Len(csv_calls) < MaxCsvCalls

CsvOnNewBest ==
    /\ Callable
    /\ \E solution \in Solutions : best_sol' = solution
    /\ csv_calls' = Append(csv_calls, "on_new_best")
    /\ UNCHANGED <<csv_pc, csv_iteration, best_sols, pher, best_csv, writes>>

CsvOnCurrentBest ==
    /\ Callable
    /\ \E best \in Solutions : csv_calls' = Append(csv_calls, "on_current_best")
    /\ UNCHANGED <<csv_pc, csv_iteration, best_sols, pher, best_sol, best_csv, writes>>

CsvOnIterationStart ==
    /\ Callable
    /\ \E iter \in 0..MaxCsvIteration : csv_iteration' = iter
    /\ csv_calls' = Append(csv_calls, "on_iteration_start")
    /\ UNCHANGED <<csv_pc, best_sols, pher, best_sol, best_csv, writes>>

\* on_iteration_end writing the file as it goes
CsvOnIterationEndFlushing ==
    /\ Callable
    /\ \E iter \in 0..MaxCsvIteration :
          /\ best_sols' = best_sols \o MatrixRecords(best_sol, 0, iter)
          /\ best_csv' = CsvProbe_flush(best_csv, best_sols')
    /\ writes' = writes + 1
    /\ csv_calls' = Append(csv_calls, "on_iteration_end")
    /\ UNCHANGED <<csv_pc, csv_iteration, pher, best_sol>>

CsvOnIterationEnd ==
    /\ Callable
    /\ \E iter \in 0..MaxCsvIteration :
          best_sols' = best_sols \o MatrixRecords(best_sol, 0, iter)
    /\ csv_calls' = Append(csv_calls, "on_iteration_end")
    /\ UNCHANGED <<csv_pc, csv_iteration, pher, best_sol, best_csv, writes>>

\* on_end, flush: the file is created and written
CsvOnEnd ==
    /\ Callable
    /\ best_csv' = CsvProbe_flush(best_csv, best_sols)
    /\ writes' = writes + 1
    /\ csv_calls' = Append(csv_calls, "on_end")
    /\ UNCHANGED <<csv_pc, csv_iteration, best_sols, pher, best_sol>>

\* on_end, flush: from_path("best.csv") fails and unwrap panics
CsvOnEndNoFile ==
    /\ Callable
    /\ csv_pc' = "Panicked"
    /\ csv_calls' = Append(csv_calls, "on_end")
    /\ UNCHANGED <<csv_iteration, best_sols, pher, best_sol, best_csv, writes>>

----------------------------------------------------------------------------
(* The specifications: one program at a time, the other left idle *)

allvars == <<vars, ffvars, csvvars>>

\* the particle swarm engine, no firefly run, no record probe
PsoInit == Init /\ FfIdle /\ CsvIdle

Next ==
    \/ New /\ UNCHANGED <<ffvars, csvvars>>
    \/ Execute /\ UNCHANGED <<ffvars, csvvars>>
    \/ OnBegin /\ UNCHANGED <<ffvars, csvvars>>
    \/ UpdateVelocities /\ UNCHANGED <<ffvars, csvvars>>
    \/ UpdatePositions /\ UNCHANGED <<ffvars, csvvars>>
    \/ UpdateBestPosition /\ UNCHANGED <<ffvars, csvvars>>
    \/ RemainderByZero /\ UNCHANGED <<ffvars, csvvars>>
    \/ OnNewGeneration /\ UNCHANGED <<ffvars, csvvars>>
    \/ NoNotification /\ UNCHANGED <<ffvars, csvvars>>
    \/ OnEnd /\ UNCHANGED <<ffvars, csvvars>>

Spec == PsoInit /\ [][Next]_allvars

\* a firefly run, no particle swarm engine, no record probe
FfStart == FfInit /\ Init /\ CsvIdle

FfNext ==
    \/ OnStart /\ UNCHANGED <<vars, csvvars>>
    \/ GenerateEmptyRange /\ UNCHANGED <<vars, csvvars>>
    \/ GeneratePopulation /\ UNCHANGED <<vars, csvvars>>
    \/ EvaluateBrightness /\ UNCHANGED <<vars, csvvars>>
    \/ OnIterationStart /\ UNCHANGED <<vars, csvvars>>
    \/ NoIterationStart /\ UNCHANGED <<vars, csvvars>>
    \/ Move /\ UNCHANGED <<vars, csvvars>>
    \/ Stay /\ UNCHANGED <<vars, csvvars>>
    \/ Decay /\ UNCHANGED <<vars, csvvars>>
    \/ ReportEmptyPopulation /\ UNCHANGED <<vars, csvvars>>
    \/ ReportNewBest /\ UNCHANGED <<vars, csvvars>>
    \/ ReportCurrentBest /\ UNCHANGED <<vars, csvvars>>
    \/ FfOnEnd /\ UNCHANGED <<vars, csvvars>>

SpecFF == FfStart /\ [][FfNext]_allvars

\* a record probe and its caller, no particle swarm engine, no firefly run
CsvStart == CsvInit /\ Init /\ FfIdle

CsvNext ==
    \/ CsvOnNewBest /\ UNCHANGED <<vars, ffvars>>
    \/ CsvOnCurrentBest /\ UNCHANGED <<vars, ffvars>>
    \/ CsvOnIterationStart /\ UNCHANGED <<vars, ffvars>>
    \/ CsvOnIterationEnd /\ UNCHANGED <<vars, ffvars>>
    \/ CsvOnEnd /\ UNCHANGED <<vars, ffvars>>
    \/ CsvOnEndNoFile /\ UNCHANGED <<vars, ffvars>>

SpecCsv == CsvStart /\ [][CsvNext]_allvars

\* the statements of execute: a call that has begun runs on, statement after statement
ExecuteStep ==
    \/ OnBegin
    \/ UpdateVelocities
    \/ UpdatePositions
    \/ UpdateBestPosition
    \/ RemainderByZero
    \/ OnNewGeneration
    \/ NoNotification
    \/ OnEnd

LiveSpec == Spec /\ WF_allvars(ExecuteStep /\ UNCHANGED <<ffvars, csvvars>>)

----------------------------------------------------------------------------
(* Vocabulary of the properties *)

IsPrefix(s, t) == Len(s) <= Len(t) /\ SubSeq(t, 1, Len(s)) = s

IsGeneration(c) == c.op = "on_new_generation"

IsStep(c) == ~IsGeneration(c)

\* the calls of the current run other than on_new_generation
Steps == SelectSeq(trace, IsStep)

\* the on_new_generation calls of the current run
Generations == SelectSeq(trace, IsGeneration)

Pass == <<Call("update_velocities", 0), Call("update_positions", 0),
          Call("update_best_position", 0)>>

RECURSIVE Passes(_)
Passes(n) == IF n = 0 THEN <<>> ELSE Pass \o Passes(n - 1)

Protocol(n) == <<Call("on_begin", 0)>> \o Passes(n) \o <<Call("on_end", 0)>>

RunOver == pc \in {"Completed", "Panicked"}

Started == runs >= 1 /\ pc # "on_begin"

UpdateOps == {"update_velocities", "update_positions", "update_best_position"}

----------------------------------------------------------------------------
(* C1: in every run of execute on_begin comes once and first, each        *)
(* iteration is update_velocities, update_positions, update_best_position *)
(* in that order, and on_end comes once and last.                         *)

\* C1 as stated: every run that is over has delivered the whole protocol, on_end included
C1_ProtocolInEveryRun ==
    /\ Started => IsPrefix(Steps, Protocol(config.iterations))
    /\ RunOver => Steps = Protocol(config.iterations)

\* C1 (amended): the calls of a run are always a prefix of on_begin, the passes, on_end;
\* a run that returns has made all of them; a run ends otherwise only by the remainder by
\* zero of log_interval == 0, after on_begin and one pass, with no on_end; and the swarm
\* changes only in a step that is one of the three updates
C1_ProtocolState ==
    /\ Started => IsPrefix(Steps, Protocol(config.iterations))
    /\ pc = "Completed" => Steps = Protocol(config.iterations)
    /\ pc = "Panicked" => /\ config.log_interval = 0
                          /\ config.iterations >= 1
                          /\ Steps = <<Call("on_begin", 0)>> \o Pass

C1_ProtocolOrUnlessRemainderByZero ==
    [][/\ C1_ProtocolState'
       /\ (swarm' # swarm /\ pc # "Unbuilt") =>
              /\ Len(trace') = Len(trace) + 1
              /\ trace'[Len(trace')].op \in UpdateOps]_vars

C1_Witness ==
    /\ pc = "Completed"
    /\ config.iterations = 2
    /\ Steps = Protocol(2)

----------------------------------------------------------------------------
(* C2: for log_interval >= 1, on_new_generation follows the                *)
(* update_best_position of 0-based iteration i iff (i+1) % log_interval    *)
(* == 0, floor(iterations / log_interval) times per run, with index i+1.   *)

RECURSIVE ExpectedIterations(_, _, _)
ExpectedIterations(i, n, k) ==
    IF i >= n THEN <<>>
    ELSE Pass
         \o (IF (i + 1) % k = 0 THEN <<Call("on_new_generation", i + 1)>> ELSE <<>>)
         \o ExpectedIterations(i + 1, n, k)

ExpectedTrace(n, k) ==
    <<Call("on_begin", 0)>> \o ExpectedIterations(0, n, k) \o <<Call("on_end", 0)>>

C2_GenerationEveryInterval ==
    (Started /\ config.log_interval >= 1) =>
        /\ IsPrefix(trace, ExpectedTrace(config.iterations, config.log_interval))
        /\ \A a, b \in 1..Len(Generations) :
              a < b => Generations[a].arg < Generations[b].arg
        /\ pc = "Completed" =>
              /\ trace = ExpectedTrace(config.iterations, config.log_interval)
              /\ Len(Generations) = config.iterations \div config.log_interval

C2_Witness ==
    /\ pc = "Completed"
    /\ config.iterations = 3
    /\ config.log_interval = 2
    /\ Generations = <<Call("on_new_generation", 2)>>

----------------------------------------------------------------------------
(* C3: monotonicity: global_best_fitness after iteration k+1 is never      *)
(* greater than after iteration k, and never greater than at on_begin.     *)

C3_GlobalBestNeverWorse ==
    \A i, j \in 1..Len(history) : i < j => history[j] <= history[i]

\* a run in which an iteration improved the global best
C3_Witness ==
    /\ Len(history) >= 3
    /\ history[Len(history)] < history[1]

----------------------------------------------------------------------------
(* C4: at every probe notification global_best_fitness is the minimum of   *)
(* the particles' best_fitness.                                            *)

MinOf(S) == CHOOSE m \in S : \A x \in S : m <= x

PersonalBests == {swarm.particles[k].best_fitness : k \in 1..Len(swarm.particles)}

\* the engine is about to deliver on_begin, on_new_generation or on_end
AtNotification ==
    \/ pc = "on_begin"
    \/ pc = "on_end"
    \/ /\ pc = "log_check"
       /\ config.log_interval # 0
       /\ (iteration + 1) % config.log_interval = 0

C4_GlobalBestIsMinimumAtNotification ==
    AtNotification => swarm.global_best_fitness = MinOf(PersonalBests)

\* an on_new_generation is due right after a pass in which a particle improved on the
\* global best
C4_Witness ==
    /\ AtNotification
    /\ pc = "log_check"
    /\ Len(history) >= 2
    /\ history[Len(history)] < history[Len(history) - 1]

----------------------------------------------------------------------------
(* C5: the global best is frozen from the start of update_velocities until *)
(* update_best_position begins; it is the one the previous iteration left. *)

GlobalBest(sw) == <<sw.global_best_position, sw.global_best_fitness>>

FrozenStep ==
    pc \in {"update_velocities", "update_positions"} =>
        /\ GlobalBest(swarm') = GlobalBest(swarm)
        /\ swarm.global_best_fitness = history[Len(history)]

C5_GlobalBestFrozenInIteration == [][FrozenStep]_vars

\* the particles have moved, one of them beats the global best, which is still the old one
C5_Witness ==
    /\ pc = "update_best_position"
    /\ \E k \in 1..Len(swarm.particles) :
          swarm.particles[k].best_fitness < swarm.global_best_fitness

----------------------------------------------------------------------------
(* C6: probe notifications leave the swarm (and the random source the      *)
(* updates draw from) unchanged.                                           *)

NotificationStep ==
    pc \in {"on_begin", "log_check", "on_end"} => (swarm' = swarm /\ rng' = rng)

C6_NotificationsLeaveSwarmUnchanged == [][NotificationStep]_vars

\* a run with two probes attached that delivered all three kinds of notification
C6_Witness ==
    /\ pc = "Completed"
    /\ config.nprobes = 2
    /\ Len(Generations) >= 1
    /\ Len(delivered) >= 6
    /\ \E k \in 1..Len(swarm.particles) :
          \E d \in 1..config.dimensions : swarm.particles[k].velocity[d] # 0

----------------------------------------------------------------------------
(* C7: with a fan-out of N probes every inner probe receives on_begin      *)
(* once, on_new_generation floor(iterations / log_interval) times and      *)
(* on_end once, the probes being invoked in list order for each event,     *)
(* all of them before the engine's next step.                              *)

IsProbeCall(c) == c.op \in {"on_begin", "on_new_generation", "on_end"}

\* the notifications the engine made in the current run
ProbeCalls == SelectSeq(trace, IsProbeCall)

RECURSIVE FanOut(_, _)
FanOut(calls, n) ==
    IF calls = <<>> THEN <<>>
    ELSE [k \in 1..n |-> [probe |-> k, op |-> Head(calls).op, arg |-> Head(calls).arg]]
         \o FanOut(Tail(calls), n)

Count(k, op) == Len(SelectSeq(delivered, LAMBDA d : d.probe = k /\ d.op = op))

C7_EveryInnerProbeInListOrder ==
    Started =>
        /\ delivered = FanOut(ProbeCalls, config.nprobes)
        /\ (pc = "Completed" /\ config.log_interval >= 1) =>
              \A k \in 1..config.nprobes :
                 /\ Count(k, "on_begin") = 1
                 /\ Count(k, "on_new_generation") = config.iterations \div config.log_interval
                 /\ Count(k, "on_end") = 1

C7_Witness ==
    /\ pc = "Completed"
    /\ config.nprobes = 2
    /\ config.iterations = 2
    /\ config.log_interval = 1
    /\ Len(delivered) = 8
    /\ delivered[3].probe = 1 /\ delivered[4].probe = 2
    /\ delivered[3].op = "on_new_generation" /\ delivered[4].op = "on_new_generation"

----------------------------------------------------------------------------
(* C8: when one inner probe fails on an event every other inner probe      *)
(* still receives that event, the run goes on through the remaining        *)
(* iterations to on_end, and the result stays available.                   *)

ReceivedBy(k) ==
    LET mine == SelectSeq(delivered, LAMBDA d : d.probe = k)
    IN  [i \in 1..Len(mine) |-> Call(mine[i].op, mine[i].arg)]

Running ==
    pc \in {"on_begin", "update_velocities", "update_positions",
            "update_best_position", "log_check", "on_end"}

C8_FailingProbeStopsNothing ==
    (Started /\ config.failing \in 1..config.nprobes) =>
        /\ Len(errors) = Len(ProbeCalls)
        /\ \A i \in 1..Len(errors) :
              /\ errors[i].probe = config.failing
              /\ Call(errors[i].op, errors[i].arg) = ProbeCalls[i]
        /\ \A k \in (1..config.nprobes) \ {config.failing} : ReceivedBy(k) = ProbeCalls
        /\ pc = "Panicked" => config.log_interval = 0
        /\ Running => ENABLED Next
        /\ pc = "Completed" =>
              /\ Steps = Protocol(config.iterations)
              /\ Len(history) = config.iterations + 1
              /\ swarm # NoSwarm
              /\ swarm.global_best_fitness = history[Len(history)]

\* the first of two probes failed on on_begin, on on_new_generation and on on_end, the
\* second received all of them, and the run completed
C8_Witness ==
    /\ pc = "Completed"
    /\ config.nprobes = 2
    /\ config.failing = 1
    /\ config.iterations = 2
    /\ Len(errors) >= 3
    /\ ReceivedBy(2) = ProbeCalls
    /\ \E i \in 1..Len(errors) : errors[i].op = "on_new_generation"

----------------------------------------------------------------------------
(* C9: construction with particle_count == 0, dimensions == 0 or           *)
(* lower_bound >= upper_bound fails: no swarm, no iteration, no probe      *)
(* event.                                                                  *)

C9_InvalidConfigurationRejected ==
    (/\ pc # "Unbuilt"
     /\ \/ config.particle_count = 0
        \/ config.dimensions = 0
        \/ config.lower_bound >= config.upper_bound) =>
        /\ pc = "Rejected"
        /\ swarm = NoSwarm
        /\ runs = 0
        /\ trace = <<>>
        /\ delivered = <<>>
        /\ history = <<>>
        /\ total = NoTotal
        /\ ~ENABLED Next

C9_Witness ==
    /\ pc = "Rejected"
    /\ config.particle_count >= 1
    /\ config.dimensions >= 1
    /\ config.lower_bound = 1
    /\ config.upper_bound = -1
    /\ config.iterations >= 1
    /\ config.nprobes >= 1

----------------------------------------------------------------------------
(* C10: execute runs at most once per engine: a second call fails and      *)
(* delivers no further notification and performs no further update.        *)

\* C10 as stated
C10_ExecuteAtMostOnce ==
    /\ total.on_begin <= 1
    /\ total.on_end <= 1
    /\ config.log_interval >= 1 =>
          total.on_new_generation <= config.iterations \div config.log_interval
    /\ total.passes <= config.iterations
    /\ runs >= 2 => (trace = <<>> /\ pc \notin {"Completed", "Panicked"})

\* C10 (amended): execute keeps no record of having run; every call that returns, a second
\* one on a completed engine included, has delivered one more on_begin and one more on_end
\* and performed `iterations` more update passes
C10_EveryCallRunsTheProtocol ==
    pc = "Completed" =>
        /\ total.on_begin = runs
        /\ total.on_end = runs
        /\ total.passes = runs * config.iterations
        /\ config.log_interval >= 1 =>
              total.on_new_generation = runs * (config.iterations \div config.log_interval)

C10_Witness ==
    /\ pc = "Completed"
    /\ runs = 2
    /\ config.iterations >= 2
    /\ total.on_begin = 2
    /\ total.passes = 2 * config.iterations

----------------------------------------------------------------------------
(* C11: in every state of a run the swarm holds particle_count particles,  *)
(* and every particle's position, velocity and best_position have          *)
(* `dimensions` coordinates.                                               *)

C11_StructuralConsistency ==
    pc \notin {"Unbuilt", "Rejected"} =>
        /\ Len(swarm.particles) = config.particle_count
        /\ Len(swarm.global_best_position) = config.dimensions
        /\ \A k \in 1..Len(swarm.particles) :
              /\ Len(swarm.particles[k].position) = config.dimensions
              /\ Len(swarm.particles[k].velocity) = config.dimensions
              /\ Len(swarm.particles[k].best_position) = config.dimensions

\* two particles of one dimension (so that the two counts differ) have moved
C11_Witness ==
    /\ pc = "Completed"
    /\ config.particle_count = 2
    /\ config.dimensions = 1
    /\ config.iterations >= 2
    /\ \E k \in 1..2 : swarm.particles[k].position # swarm.particles[k].best_position

----------------------------------------------------------------------------
(* C12: particle_count = 1, iterations = 1: after the single pass the      *)
(* particle's personal best is the global best, and the global best        *)
(* fitness at on_end is the objective at the particle's position after     *)
(* its one position update.                                                *)

SingleParticleSinglePass ==
    /\ pc = "Completed"
    /\ config.particle_count = 1
    /\ config.iterations = 1

\* C12 as stated
C12_SinglePassBestIsObjectiveAtPosition ==
    SingleParticleSinglePass =>
        /\ swarm.global_best_position = swarm.particles[1].best_position
        /\ swarm.global_best_fitness = swarm.particles[1].best_fitness
        /\ swarm.global_best_fitness = rosenbrock(swarm.particles[1].position)

\* C12 (amended): the personal best is the global best, and the global best fitness at
\* on_end is the smaller of the fitness seen at on_begin and the objective at the position
\* after the one update: the objective at that position only if the move did not worsen it
C12_SinglePassBestIsBetterOfTwo ==
    SingleParticleSinglePass =>
        /\ swarm.global_best_position = swarm.particles[1].best_position
        /\ swarm.global_best_fitness = swarm.particles[1].best_fitness
        /\ swarm.global_best_fitness = rosenbrock(swarm.global_best_position)
        /\ LET moved == rosenbrock(swarm.particles[1].position)
           IN  swarm.global_best_fitness = IF moved < history[1] THEN moved ELSE history[1]

\* the one move improved the particle
C12_Witness ==
    /\ SingleParticleSinglePass
    /\ runs = 1
    /\ swarm.global_best_fitness < history[1]
    /\ swarm.global_best_position = swarm.particles[1].position

----------------------------------------------------------------------------
(* C20: with log_interval == 0 and iterations >= 1 execute aborts on the   *)
(* remainder by zero in the first iteration, after on_begin and one        *)
(* velocity/position/best update, and on_end is never delivered; with      *)
(* iterations == 0 the run completes: on_begin, then on_end.               *)

C20_ZeroIntervalAbortsFirstIteration ==
    (Started /\ config.log_interval = 0) =>
        /\ config.iterations >= 1 =>
              /\ pc \notin {"on_end", "Completed"}
              /\ IsPrefix(trace, <<Call("on_begin", 0)>> \o Pass)
              /\ iteration = 0
              /\ pc = "log_check" => (ENABLED RemainderByZero /\ trace = <<Call("on_begin", 0)>> \o Pass)
              /\ pc = "Panicked" => (trace = <<Call("on_begin", 0)>> \o Pass /\ ~ENABLED Next)
        /\ config.iterations = 0 =>
              /\ pc \in {"on_end", "Completed"}
              /\ pc = "on_end" => (ENABLED OnEnd /\ trace = <<Call("on_begin", 0)>>)
              /\ pc = "Completed" => trace = <<Call("on_begin", 0), Call("on_end", 0)>>

\* the run of a three-iteration engine has aborted after its first pass
C20_Witness ==
    /\ pc = "Panicked"
    /\ config.log_interval = 0
    /\ config.iterations = 3
    /\ total.passes = 1
    /\ total.on_end = 0

----------------------------------------------------------------------------
(* C13: for log_interval >= 1 execute performs exactly `iterations` passes *)
(* and then delivers on_end and reaches Completed; with iterations = 0 it  *)
(* delivers on_begin and at once on_end, with no update and no             *)
(* on_new_generation.                                                      *)

IsRescan(c) == c.op = "update_best_position"

PassesDone == Len(SelectSeq(trace, IsRescan))

ExactPasses ==
    /\ Started => PassesDone <= config.iterations
    /\ pc \in {"on_end", "Completed"} => PassesDone = config.iterations
    /\ (pc = "Completed" /\ config.iterations = 0) =>
          trace = <<Call("on_begin", 0), Call("on_end", 0)>>

C13_ExecuteTerminates ==
    /\ []ExactPasses
    /\ (pc = "on_begin" /\ config.log_interval >= 1) ~> (pc = "Completed")

\* a run of three passes with a notification interval of two has completed
C13_Witness ==
    /\ pc = "Completed"
    /\ config.iterations = 3
    /\ config.log_interval = 2
    /\ PassesDone = 3

----------------------------------------------------------------------------
(* Vocabulary of the firefly properties *)

\* the configurations the probe protocol is stated for
FfValid == ffconfig.population_size >= 1 /\ ffconfig.lower_bound < ffconfig.upper_bound

\* ceil(max_generations / 25)
ReportsExpected == (ffconfig.max_generations + ReportPeriod - 1) \div ReportPeriod

IsReport(c) == c.op \in {"on_new_best", "on_current_best"}

IsNewBest(c) == c.op = "on_new_best"

\* the values passed to on_new_best so far, in order
NewBests == SelectSeq(probe_calls, IsNewBest)

\* execute has built the population and its brightness
Evaluated == ffpc \notin {"Idle", "on_start", "generate", "evaluate"}

\* the ranking and report of a reporting generation have just been made
JustReported ==
    /\ ffpc \in {"iteration_start", "on_end", "Done"}
    /\ probe_calls # <<>>
    /\ IF ffpc = "Done" THEN Len(probe_calls) >= 2 /\ IsReport(probe_calls[Len(probe_calls) - 1])
       ELSE IsReport(probe_calls[Len(probe_calls)])
    /\ (generation - 1) % ReportPeriod = 0

\* no firefly is brighter than firefly p (numbered from 0)
Brightest(p) == \A j \in 1..Len(brightness) : ~Less(brightness[p + 1], brightness[j])

----------------------------------------------------------------------------
(* C14: in every run of execute the objective function is evaluated once   *)
(* per firefly per generation: a run makes max_generations *               *)
(* population_size evaluations in all.                                     *)

C14_EvaluationsAreGenerationsTimesPopulation ==
    ffpc = "Done" => evaluations = ffconfig.max_generations * ffconfig.population_size

----------------------------------------------------------------------------
(* C15: with population_size >= 1 and lower_bound < upper_bound, on_start  *)
(* is the first probe call and on_end the last, each once;                 *)
(* on_iteration_start(g) is delivered exactly for the generations g with   *)
(* g % 25 == 0, g increasing, ceil(max_generations / 25) times, each       *)
(* followed within its generation by exactly one of on_new_best and        *)
(* on_current_best; no other generation makes a probe call.                *)

\* the k-th call after on_start: the reports come in pairs, generation 0, 25, 50, ...
ProtocolCall(k) ==
    LET c == probe_calls[k + 1]
    IN  IF k % 2 = 1
        THEN c = Call("on_iteration_start", ReportPeriod * ((k - 1) \div 2))
        ELSE IsReport(c)

FfProtocol ==
    /\ ffpc # "Panicked"
    /\ ffpc # "on_start" =>
          /\ probe_calls # <<>>
          /\ probe_calls[1] = Call("on_start", 0)
    /\ ffpc = "on_start" => probe_calls = <<>>
    /\ IF ffpc = "Done"
       THEN /\ Len(probe_calls) = 2 + 2 * ReportsExpected
            /\ probe_calls[Len(probe_calls)] = Call("on_end", 0)
            /\ \A k \in 1..(Len(probe_calls) - 2) : ProtocolCall(k)
       ELSE \A k \in 1..(Len(probe_calls) - 1) : ProtocolCall(k)
    \* a pending on_iteration_start(g) is answered within generation g
    /\ (ffpc # "Done" /\ Len(probe_calls) >= 2 /\ Len(probe_calls) % 2 = 0) =>
          /\ generation = probe_calls[Len(probe_calls)].arg
          /\ ffpc \in {"compare", "decay", "report"}
    \* between the reports no call is pending
    /\ (ffpc \in {"compare", "decay", "report"} /\ ~Reporting(generation)) =>
          Len(probe_calls) % 2 = 1
    /\ ffpc = "report" => Len(probe_calls) % 2 = 0

C15_ProbeProtocol == FfValid => FfProtocol

\* a run of 26 generations has reported at generations 0 and 25 and has ended
C15_Witness ==
    /\ FfValid
    /\ ffpc = "Done"
    /\ ffconfig.max_generations = 26
    /\ Len(probe_calls) = 6
    /\ probe_calls[4] = Call("on_iteration_start", 25)

----------------------------------------------------------------------------
(* C16: at every reporting generation the firefly whose objective value is *)
(* compared with currentbest and reported is one of maximal brightness     *)
(* among all fireflies at that moment, the lowest index among them when no *)
(* brightness is infinite.                                                 *)

C16_ReportedFireflyIsBrightest ==
    (JustReported /\ Len(population) > 0) =>
        /\ Brightest(maxpos)
        /\ (\A j \in 1..Len(brightness) : brightness[j] # INFINITY) =>
              \A p \in 0..(maxpos - 1) : ~Brightest(p)

----------------------------------------------------------------------------
(* C17: on_new_best, on_current_best, on_iteration_start and               *)
(* on_iteration_end of the ant system CsvProbe never write to the sink;    *)
(* the record list is only appended to, never reordered or truncated; the  *)
(* one bulk write happens at on_end, which writes every accumulated record *)
(* exactly once, in accumulation order.                                    *)

IsEnd(name) == name = "on_end"

\* the calls of on_end that returned
EndsReturned ==
    Len(SelectSeq(csv_calls, IsEnd)) - (IF csv_pc = "Panicked" THEN 1 ELSE 0)

\* one writer per on_end, and the file holds what the last on_end found accumulated
OneWritePerEnd ==
    /\ writes = EndsReturned
    /\ writes = 0 => best_csv = <<>>
    /\ (csv_pc = "Ready" /\ csv_calls # <<>> /\ csv_calls[Len(csv_calls)] = "on_end") =>
          best_csv = best_sols

\* one call on the probe
ProbeCallStep ==
    LET called == csv_calls'[Len(csv_calls')]
    IN  /\ Len(csv_calls') = Len(csv_calls) + 1
        /\ IsPrefix(best_sols, best_sols')
        /\ called # "on_end" => best_csv' = best_csv /\ writes' = writes
        /\ (called = "on_end" /\ csv_pc' = "Ready") =>
              /\ writes' = writes + 1
              /\ best_sols' = best_sols
              /\ best_csv' = best_sols

C17_BulkWriteAtEndOnly == []OneWritePerEnd /\ [][ProbeCallStep]_allvars

\* records were accumulated at two iterations and one on_end has written them all
C17_Witness ==
    /\ csv_pc = "Ready"
    /\ csv_calls # <<>>
    /\ csv_calls[Len(csv_calls)] = "on_end"
    /\ Len(best_csv) >= 3
    /\ best_csv[1].iter # best_csv[Len(best_csv)].iter
    /\ writes = 1

----------------------------------------------------------------------------
(* C18: after initialization and after every move step, for every firefly  *)
(* i brightness[i] == 1 / brightness_function(population[i]); a position   *)
(* is changed only in a step where brightness[index] <                     *)
(* brightness[innerindex] held, so never by comparison with itself, and    *)
(* the brightness is re-evaluated in the same step.                        *)

BrightnessConsistent ==
    Evaluated =>
        /\ Len(brightness) = Len(population)
        /\ \A i \in 1..Len(population) :
              brightness[i] = Inverse(Objective(population[i]))

MoveStep ==
    population' # population /\ ffpc # "generate" =>
        /\ ffpc = "compare"
        /\ Less(brightness[index + 1], brightness[innerindex + 1])
        /\ index # innerindex
        /\ \A i \in 1..Len(population) : i # index + 1 => population'[i] = population[i]
        /\ brightness'[index + 1] = Inverse(Objective(population'[index + 1]))

C18_BrightnessConsistency == []BrightnessConsistent /\ [][MoveStep]_allvars

\* a firefly has been moved out of the range it was generated in
C18_Witness ==
    /\ Evaluated
    /\ \E i \in 1..Len(population) :
          /\ Len(population[i]) = 1
          /\ population[i][1] >= ffconfig.upper_bound
          /\ brightness[i] = Inverse(Objective(population[i]))

----------------------------------------------------------------------------
(* C19: the values passed to successive on_new_best calls of one run are   *)
(* strictly decreasing, and a reporting generation calls on_current_best   *)
(* exactly when the selected firefly's objective value is not strictly     *)
(* below the last value reported.                                          *)

StrictlyDecreasing(s) == \A i \in 1..(Len(s) - 1) : s[i + 1].arg < s[i].arg

\* the report of a reporting generation
ReportStep ==
    (ffpc = "report" /\ ffpc' # "report" /\ ffpc' # "Panicked") =>
        LET selected == Objective(population[maxpos' + 1])
            made == probe_calls'[Len(probe_calls')]
        IN  /\ Len(probe_calls') = Len(probe_calls) + 1
            /\ IsReport(made)
            /\ made.op = "on_current_best" <=>
                  (NewBests # <<>> /\ ~(selected < NewBests[Len(NewBests)].arg))
            /\ made.op = "on_new_best" => made.arg = selected

C19_NewBestStrictlyImproving == [](StrictlyDecreasing(NewBests)) /\ [][ReportStep]_allvars

\* a run has reported a new best at generation 0 and a better one at generation 25
C19_Witness ==
    /\ ffpc = "Done"
    /\ Len(NewBests) = 2
    /\ NewBests[2].arg < NewBests[1].arg

====
